---- MODULE Spec2Model ----
(***************************************************************************)
(* A state-machine model of markdown2word: the Engine Locator              *)
(* (MarkdownConverter._find_pandoc, convert.find_pandoc_paths), the        *)
(* Conversion Invoker (MarkdownConverter.convert_file / convert_text),     *)
(* the two Batch Drivers (MarkdownConverter.batch_convert and              *)
(* convert.batch_convert) and the command-line single-file path            *)
(* (convert.convert_single_file).                                          *)
(*                                                                         *)
(* The filesystem is a finite map from paths to file contents plus a set   *)
(* of directories.  A path is a sequence of names; a name is a record      *)
(* [stem, ext] so that Path.stem, Path.with_suffix and glob matching are   *)
(* computed rather than assumed.  The external engine (pypandoc / pandoc)  *)
(* is nondeterministic: it may or may not write the output file and may    *)
(* or may not raise.                                                       *)
(***************************************************************************)
EXTENDS Naturals, Sequences, FiniteSets, TLC

VARIABLES
    files,          \* filesystem: path -> content, for every regular file
    dirs,           \* filesystem: the set of directories
    callerExtra,    \* the caller's extra_args list object (mutable Python list)
    extra0,         \* what the caller put into that list when constructing it
    engineCalls,    \* number of pypandoc.convert_file / convert_text invocations
    lastEngine,     \* the most recent engine invocation: input, output, args
    ret,            \* what the last operation returned (or the exception it raised)
    last,           \* the last Conversion Invoker call: its inputs and the pre-state
    calls,          \* number of top-level operations performed
    installed,      \* candidate engine path -> "absent" | "works" | "broken"
    probe,          \* outcome of running ['pandoc', '--version'] on the search path
    pandoc_path,    \* MarkdownConverter.pandoc_path
    pandoc_env,     \* os.environ['PYPANDOC_PANDOC']
    located,        \* what the last _find_pandoc call returned (or raised)
    pc,             \* position of the running batch driver: "idle" | "loop"
    batch,          \* the batch arguments of the session, and the driver last called
    md_left,        \* md_files not yet processed by the running batch
    total,          \* len(md_files) of the running / last batch call
    results,        \* results dict of batch_convert: file name -> bool
    success_count,  \* success_count of the running / last batch call
    mapped,         \* (input, output) pairs the running / last batch call processed
    history,        \* per finished batch call: its arguments and len(md_files)
    opts            \* the caller's ConversionOptions: fixed once built

locVars == <<installed, probe, pandoc_path, pandoc_env, located>>
fsVars == <<files, dirs>>
invVars == <<callerExtra, extra0, engineCalls, lastEngine, last>>
batchVars == <<pc, batch, md_left, total, results, success_count, mapped, history>>
vars == <<files, dirs, callerExtra, extra0, engineCalls, lastEngine, ret, last,
          calls, installed, probe, pandoc_path, pandoc_env, located, pc, batch,
          md_left, total, results, success_count, mapped, history, opts>>

----------------------------------------------------------------------------
(* Bounds of the model *)

\* Top-level Conversion Invoker / command-line calls per behaviour.
MaxCalls == 3

\* Batch driver calls per behaviour.
MaxBatchCalls == 2

\* Files below the input directory when a batch session starts.
MaxInputFiles == 2

\* Locator / constructor calls per behaviour.
MaxLocatorCalls == 2

----------------------------------------------------------------------------
(* Paths *)

N(s, e) == [stem |-> s, ext |-> e]

NoPath == <<>>

\* os.path.dirname / Path.parent
Dirname(p) == IF Len(p) = 0 THEN <<>> ELSE SubSeq(p, 1, Len(p) - 1)

\* Path.name of the last component
Basename(p) == p[Len(p)]

\* Path.stem: the final component without its suffix
StemOf(p) == Basename(p).stem

\* Path.with_suffix('.docx')
WithSuffix(p, e) == Dirname(p) \o <<N(StemOf(p), e)>>

\* Variant: the output is put next to the input, as convert_single_file does.
OutputFileOf_NextToInput(output_path, md_file) == WithSuffix(md_file, "docx")

\* output_path / f"{md_file.stem}.docx"
OutputFileOf(output_path, md_file) == output_path \o <<N(StemOf(md_file), "docx")>>

IsPrefix(p, q) == Len(p) <= Len(q) /\ SubSeq(q, 1, Len(p)) = p

\* os.path.exists
Exists(fs, ds, p) == p \in DOMAIN fs \/ p \in ds

\* os.makedirs(d) / Path.mkdir(parents=True, exist_ok=True): d and every
\* missing ancestor become directories (no path used here has a regular file
\* as an ancestor, so the call does not raise)
MakeDirs(ds, d) == ds \cup {SubSeq(d, 1, i) : i \in 1..Len(d)}

\* File contents: a source document, a file that was at the output path before
\* any conversion, and a document the engine wrote
Src == "src"
Old == "old"
Docx == "docx"

WriteFile(fs, p, c) == [q \in DOMAIN fs \cup {p} |-> IF q = p THEN c ELSE fs[q]]

----------------------------------------------------------------------------
(* Engine arguments *)

Flag(s) == [opt |-> s, path |-> NoPath]
PathArg(p) == [opt |-> "", path |-> p]

\* markdown_converter.py 138-151: the flags the options enable
OptionFlags(template, tmplExists, toc, number_sections) ==
    (IF template # NoPath /\ tmplExists
        THEN <<Flag("--reference-doc"), PathArg(template)>> ELSE <<>>)
    \o (IF toc THEN <<Flag("--toc")>> ELSE <<>>)
    \o (IF number_sections THEN <<Flag("--number-sections")>> ELSE <<>>)

\* Variant: the option flags first, the extra arguments appended after them.
BuildArgs_FlagsFirst(extra_args, template, tmplExists, toc, number_sections) ==
    OptionFlags(template, tmplExists, toc, number_sections) \o extra_args

\* markdown_converter.py 136-151: args = extra_args or []; then extend/append
BuildArgs(extra_args, template, tmplExists, toc, number_sections) ==
    extra_args \o OptionFlags(template, tmplExists, toc, number_sections)

\* `args = extra_args or []` binds args to the caller's own list object whenever
\* that list is non-empty, so extend/append act on the caller's list
ExtraAfterCall(extra_args, args) == IF extra_args # <<>> THEN args ELSE extra_args

----------------------------------------------------------------------------
(* The external engine *)

\* writes: the engine leaves a file at the output path; raises: pypandoc raises
EngineOutcomes == [writes : BOOLEAN, raises : BOOLEAN]

EngineRun(fs, input, output, outcome) ==
    IF outcome.writes THEN WriteFile(fs, output, Docx) ELSE fs

----------------------------------------------------------------------------
(* Conversion Invoker *)

\* Variant: the filesystem alone decides, also after an exception.
ConversionResult_TrustFilesystem(raised, outExists) == outExists

\* markdown_converter.py 168-183: True iff no exception and the output exists
ConversionResult(raised, outExists) == ~raised /\ outExists

\* Variant: no existence check before the engine is invoked.
InputGuard_NoCheck(fs, ds, input_file) == TRUE

\* markdown_converter.py 130-133: the input file must exist
InputGuard(fs, ds, input_file) == Exists(fs, ds, input_file)

NotInvoked == [input |-> NoPath, output |-> NoPath, args |-> <<>>]

\* The body of convert_file after argument binding.  Returns the new filesystem,
\* the boolean result, whether the engine was invoked and with what, and the
\* content of the list object passed as extra_args after the call.
ConvertFile(fs, ds, input_file, output_file, template, toc, number_sections, extra_args, outcome) ==
    IF ~InputGuard(fs, ds, input_file)
    THEN [ret |-> FALSE, files |-> fs, dirs |-> ds, invoked |-> FALSE,
          engine |-> NotInvoked, extra_after |-> extra_args, raised |-> FALSE]
    ELSE
      LET args == BuildArgs(extra_args, template, Exists(fs, ds, template),
                            toc, number_sections)
          output_dir == Dirname(output_file)
          ds1 == IF output_dir # <<>> /\ ~Exists(fs, ds, output_dir)
                   THEN MakeDirs(ds, output_dir) ELSE ds
          fs1 == EngineRun(fs, input_file, output_file, outcome)
      IN [ret |-> ConversionResult(outcome.raises, Exists(fs1, ds1, output_file)),
          files |-> fs1, dirs |-> ds1, invoked |-> TRUE,
          engine |-> [input |-> input_file, output |-> output_file, args |-> args],
          extra_after |-> ExtraAfterCall(extra_args, args),
          raised |-> outcome.raises]

\* The body of convert_text: no input file, args start from a fresh list.
ConvertText(fs, ds, output_file, template, toc, number_sections, outcome) ==
    LET args == BuildArgs(<<>>, template, Exists(fs, ds, template),
                          toc, number_sections)
        output_dir == Dirname(output_file)
        ds1 == IF output_dir # <<>> /\ ~Exists(fs, ds, output_dir)
                 THEN MakeDirs(ds, output_dir) ELSE ds
        fs1 == EngineRun(fs, NoPath, output_file, outcome)
    IN [ret |-> ConversionResult(outcome.raises, Exists(fs1, ds1, output_file)),
        files |-> fs1, dirs |-> ds1, invoked |-> TRUE,
        engine |-> [input |-> NoPath, output |-> output_file, args |-> args],
        extra_after |-> <<>>, raised |-> outcome.raises]

BoolStr(b) == IF b THEN "True" ELSE "False"

----------------------------------------------------------------------------
(* Engine Locator *)

None == "<None>"
Sentinel == "pandoc"
Raised == "<raised>"

\* markdown_converter.py 81-90 and convert.py 26-35: the candidates, in order
\* (<USERNAME> stands for os.getenv('USERNAME', ''))
PossiblePaths ==
    << "C:\\Program Files\\Pandoc\\pandoc.exe",
       "C:\\Program Files (x86)\\Pandoc\\pandoc.exe",
       "C:\\Users\\<USERNAME>\\AppData\\Local\\Pandoc\\pandoc.exe",
       "C:\\ProgramData\\chocolatey\\bin\\pandoc.exe",
       "C:\\Users\\<USERNAME>\\scoop\\apps\\pandoc\\current\\pandoc.exe" >>

Candidates == {PossiblePaths[i] : i \in 1..Len(PossiblePaths)}

\* A path the caller may hand to the constructor that is not on disk.
CustomPath == "/opt/pandoc/bin/pandoc"

\* Outcomes of subprocess.run(['pandoc', '--version'], check=True): exit status 0,
\* CalledProcessError, FileNotFoundError, or another OSError (PermissionError)
ProbeOutcomes == {"ok", "nonzero", "notfound", "oserror"}

\* os.path.exists on an engine path
OnDisk(inst, path) == path \in DOMAIN inst /\ inst[path] # "absent"

\* Indices of the candidates that exist on disk
ExistingIdx(inst) == {i \in 1..Len(PossiblePaths) : OnDisk(inst, PossiblePaths[i])}

MinOf(S) == CHOOSE i \in S : \A j \in S : i <= j
MaxOf(S) == CHOOSE i \in S : \A j \in S : j <= i

\* markdown_converter.py 96-104: the search-path probe
ProbeSentinel(pr) ==
    CASE pr = "ok" -> Sentinel
      [] pr \in {"nonzero", "notfound"} -> None
      [] OTHER -> Raised

\* Variant: the loop keeps going and the last existing candidate wins.
FindPandoc_LastExisting(inst, pr) ==
    IF ExistingIdx(inst) # {} THEN PossiblePaths[MaxOf(ExistingIdx(inst))]
    ELSE ProbeSentinel(pr)

\* markdown_converter.py 79-104: the first candidate that exists is returned
\* as it is; only the search path is probed
FindPandoc(inst, pr) ==
    IF ExistingIdx(inst) # {} THEN PossiblePaths[MinOf(ExistingIdx(inst))]
    ELSE ProbeSentinel(pr)

\* convert.py 24-49: find_pandoc_paths()[0] if any, else None
SelectedPath(inst) ==
    IF ExistingIdx(inst) # {} THEN PossiblePaths[MinOf(ExistingIdx(inst))] ELSE None

\* markdown_converter.py 35-77: __init__ and _setup_environment.  An exception
\* of _find_pandoc is caught by `except Exception` and leaves both unchanged.
\* The pypandoc self-test that follows (line 68) only decides the return value
\* of _setup_environment, which __init__ ignores.
SetupEnvironment(arg, env, inst, pr) ==
    IF arg # None /\ OnDisk(inst, arg)
    THEN [pandoc_path |-> arg, env |-> arg, found |-> None, searched |-> FALSE]
    ELSE LET found == FindPandoc(inst, pr)
         IN IF found \in {None, Raised}
            THEN [pandoc_path |-> arg, env |-> env, found |-> found, searched |-> TRUE]
            ELSE [pandoc_path |-> found, env |-> found, found |-> found, searched |-> TRUE]

----------------------------------------------------------------------------
(* Paths and options the callers use *)

Doc == <<N("doc", "md")>>
Missing == <<N("missing", "md")>>
Out == <<N("build", ""), N("out", "docx")>>
Style == <<N("style", "docx")>>
NoStyle == <<N("nostyle", "docx")>>

ExtraChoices ==
    { <<>>, <<Flag("--standalone")>>, <<Flag("--standalone"), Flag("--wrap=none")>> }

NoLast ==
    [op |-> "none", input |-> NoPath, output |-> NoPath, input_existed |-> FALSE,
     output_existed |-> FALSE, files_before |-> <<>>, dirs_before |-> {},
     engine_before |-> 0, extra_passed |-> <<>>, toc |-> FALSE,
     number_sections |-> FALSE, template |-> NoPath, template_existed |-> FALSE,
     raised |-> FALSE, wrote |-> FALSE]

LastOf(op, input, output, template, toc, num, extra, raised, wrote) ==
    [op |-> op, input |-> input, output |-> output,
     input_existed |-> Exists(files, dirs, input),
     output_existed |-> Exists(files, dirs, output),
     files_before |-> files, dirs_before |-> dirs, engine_before |-> engineCalls,
     extra_passed |-> extra, toc |-> toc, number_sections |-> num,
     template |-> template, template_existed |-> Exists(files, dirs, template),
     raised |-> raised, wrote |-> wrote]

InitLocatorIdle ==
    /\ pandoc_path = None
    /\ pandoc_env = None
    /\ located = None

InitInvokerIdle ==
    /\ callerExtra = <<>>
    /\ extra0 = <<>>
    /\ engineCalls = 0
    /\ lastEngine = NotInvoked
    /\ last = NoLast

InitBatchIdle ==
    /\ pc = "idle"
    /\ batch = [driver |-> "none", input |-> NoPath, output |-> NoPath,
                pattern |-> <<>>]
    /\ md_left = {}
    /\ total = 0
    /\ results = <<>>
    /\ success_count = 0
    /\ mapped = {}
    /\ history = <<>>

----------------------------------------------------------------------------
(* Specification of the Engine Locator *)

InitLocator ==
    /\ installed \in [Candidates -> {"absent", "works", "broken"}]
    /\ probe \in ProbeOutcomes
    /\ InitLocatorIdle
    /\ InitInvokerIdle
    /\ InitBatchIdle
    /\ files = <<>>
    /\ dirs = {}
    /\ ret = "none"
    /\ calls = 0
    /\ opts = [template |-> NoPath, toc |-> FALSE, number_sections |-> FALSE]

\* MarkdownConverter._find_pandoc()
FindPandocCall ==
    /\ calls < MaxLocatorCalls
    /\ located' = FindPandoc(installed, probe)
    /\ ret' = "find_pandoc"
    /\ calls' = calls + 1
    /\ UNCHANGED <<fsVars, invVars, batchVars, installed, probe, pandoc_path,
                   pandoc_env, opts>>

\* MarkdownConverter(pandoc_path=arg)
Construct ==
    /\ calls < MaxLocatorCalls
    /\ \E arg \in {None, CustomPath} \cup Candidates :
         LET s == SetupEnvironment(arg, pandoc_env, installed, probe)
         IN /\ pandoc_path' = s.pandoc_path
            /\ pandoc_env' = s.env
            /\ located' = IF s.searched THEN s.found ELSE located
    /\ ret' = "constructed"
    /\ calls' = calls + 1
    /\ UNCHANGED <<fsVars, invVars, batchVars, installed, probe, opts>>

\* convert.get_converter()
GetConverter ==
    /\ calls < MaxLocatorCalls
    /\ LET s == SetupEnvironment(SelectedPath(installed), pandoc_env, installed, probe)
       IN /\ pandoc_path' = s.pandoc_path
          /\ pandoc_env' = s.env
          /\ located' = IF s.searched THEN s.found ELSE located
    /\ ret' = "get_converter"
    /\ calls' = calls + 1
    /\ UNCHANGED <<fsVars, invVars, batchVars, installed, probe, opts>>

NextLocator == FindPandocCall \/ Construct \/ GetConverter

SpecLocator == InitLocator /\ [][NextLocator]_vars

----------------------------------------------------------------------------
(* Specification of the Conversion Invoker and the command-line single-file
   path *)

InitInvoker ==
    /\ \E old \in BOOLEAN :
         /\ files = IF old THEN (Doc :> Src) @@ (Style :> Src) @@ (Out :> Old)
                           ELSE (Doc :> Src) @@ (Style :> Src)
         /\ dirs = IF old THEN {Dirname(Out)} ELSE {}
    /\ opts \in [template : {NoPath, Style, NoStyle}, toc : BOOLEAN,
                 number_sections : BOOLEAN]
    /\ extra0 \in ExtraChoices
    /\ callerExtra = extra0
    /\ engineCalls = 0
    /\ lastEngine = NotInvoked
    /\ last = NoLast
    /\ installed = [c \in Candidates |-> "absent"]
    /\ probe \in {"ok", "notfound"}
    /\ InitLocatorIdle
    /\ InitBatchIdle
    /\ ret = "none"
    /\ calls = 0

\* The effect of one Conversion Invoker call r on the state.
Apply(r, passedCallerList) ==
    /\ files' = r.files
    /\ dirs' = r.dirs
    /\ callerExtra' = IF passedCallerList THEN r.extra_after ELSE callerExtra
    /\ engineCalls' = engineCalls + (IF r.invoked THEN 1 ELSE 0)
    /\ lastEngine' = IF r.invoked THEN r.engine ELSE lastEngine
    /\ ret' = BoolStr(r.ret)

\* converter.convert_file(input, Out, template, toc, number_sections, extra_args)
\* with the caller's list object as extra_args
ConvertFileCall ==
    /\ calls < MaxCalls
    /\ \E input \in {Doc, Missing}, outcome \in EngineOutcomes :
         /\ Apply(ConvertFile(files, dirs, input, Out, opts.template, opts.toc,
                              opts.number_sections, callerExtra, outcome), TRUE)
         /\ last' = LastOf("convert_file", input, Out, opts.template, opts.toc,
                           opts.number_sections, callerExtra,
                           Exists(files, dirs, input) /\ outcome.raises,
                           Exists(files, dirs, input) /\ outcome.writes)
    /\ calls' = calls + 1
    /\ UNCHANGED <<extra0, opts, locVars, batchVars>>

\* converter.convert_text(text, Out, template, toc, number_sections)
ConvertTextCall ==
    /\ calls < MaxCalls
    /\ \E outcome \in EngineOutcomes :
         /\ Apply(ConvertText(files, dirs, Out, opts.template, opts.toc,
                              opts.number_sections, outcome), FALSE)
         /\ last' = LastOf("convert_text", NoPath, Out, opts.template, opts.toc,
                           opts.number_sections, <<>>, outcome.raises,
                           outcome.writes)
    /\ calls' = calls + 1
    /\ UNCHANGED <<extra0, opts, locVars, batchVars>>

\* markdown_converter.py 106-112: the parameters of convert_file
ConvertFileParams ==
    {"self", "input_file", "output_file", "template", "toc", "number_sections",
     "extra_args"}

\* convert.py 69-74: the keyword arguments convert_single_file passes
SingleFileKeywords == {"add_toc", "number_sections"}

\* Python binds a call only if every keyword names a parameter; otherwise the
\* call raises TypeError before the function body runs.
Binds(keywords, params) == keywords \subseteq params

\* convert.py 55-85: convert_single_file(input_file, output_file, add_toc,
\* number_sections), as main calls it without --batch
ConvertSingleFile ==
    /\ calls < MaxCalls
    /\ \E input \in {Doc, Missing}, given \in {NoPath, Out}, outcome \in EngineOutcomes :
         LET output_file == IF given = NoPath THEN WithSuffix(input, "docx") ELSE given
             env == SetupEnvironment(SelectedPath(installed), pandoc_env, installed, probe)
             bound == Binds(SingleFileKeywords, ConvertFileParams)
             invoked == bound /\ Exists(files, dirs, input)
         IN /\ last' = LastOf("convert_single_file", input, output_file, NoPath,
                              opts.toc, opts.number_sections, <<>>,
                              invoked /\ outcome.raises, invoked /\ outcome.writes)
            /\ IF ~Exists(files, dirs, input)
               THEN /\ ret' = "False"
                    /\ UNCHANGED <<files, dirs, callerExtra, engineCalls, lastEngine,
                                   locVars>>
               ELSE /\ pandoc_path' = env.pandoc_path
                    /\ pandoc_env' = env.env
                    /\ located' = IF env.searched THEN env.found ELSE located
                    /\ UNCHANGED <<installed, probe>>
                    /\ IF bound
                       THEN Apply(ConvertFile(files, dirs, input, output_file, NoPath,
                                              opts.toc, opts.number_sections, <<>>,
                                              outcome), FALSE)
                       ELSE /\ ret' = "TypeError"
                            /\ UNCHANGED <<files, dirs, callerExtra, engineCalls,
                                           lastEngine>>
    /\ calls' = calls + 1
    /\ UNCHANGED <<extra0, opts, batchVars>>

NextInvoker == ConvertFileCall \/ ConvertTextCall \/ ConvertSingleFile

SpecInvoker == InitInvoker /\ [][NextInvoker]_vars

----------------------------------------------------------------------------
(* Glob patterns *)

\* One component of a glob pattern: "*" is [stem |-> "*", dot |-> FALSE], and
\* "s.e" with s and e a literal or "*" is [stem |-> s, dot |-> TRUE, ext |-> e].
Pat(s, d, e) == [stem |-> s, dot |-> d, ext |-> e]

\* fnmatch of one path component against one pattern component, for names
\* whose stem holds no dot
MatchName(np, n) ==
    IF ~np.dot
    THEN np.stem = "*" \/ (np.stem = n.stem /\ n.ext = "")
    ELSE /\ n.ext # ""
         /\ np.stem = "*" \/ np.stem = n.stem
         /\ np.ext = "*" \/ np.ext = n.ext

\* Path.glob(pattern): every file or directory below input_path whose relative
\* path has one component per pattern component, each matching
Glob(fs, ds, input_path, pattern) ==
    {p \in DOMAIN fs \cup ds :
        /\ IsPrefix(input_path, p)
        /\ Len(p) = Len(input_path) + Len(pattern)
        /\ \A i \in 1..Len(pattern) : MatchName(pattern[i], p[Len(input_path) + i])}

StarMd == <<Pat("*", TRUE, "md")>>
Star == <<Pat("*", FALSE, "")>>
AStar == <<Pat("a", TRUE, "*")>>
SubStarMd == <<Pat("*", FALSE, ""), Pat("*", TRUE, "md")>>

Patterns == {StarMd, Star, AStar, SubStarMd}

----------------------------------------------------------------------------
(* Batch Drivers *)

InDir == <<N("in", "")>>
NoDir == <<N("nodir", "")>>
OutDir == <<N("out", "")>>
Converted == InDir \o <<N("converted", "")>>

InputUniverse ==
    { InDir \o <<N("a", "md")>>, InDir \o <<N("a", "txt")>>,
      InDir \o <<N("sub1", ""), N("x", "md")>>,
      InDir \o <<N("sub2", ""), N("x", "md")>> }

\* convert.py 17-21 and its top-level defs: the names convert.py can call
ConvertModuleNames ==
    {"os", "sys", "argparse", "Path", "MarkdownConverter", "find_pandoc_paths",
     "get_converter", "convert_single_file", "batch_convert", "interactive_mode",
     "main"}

\* A call of a name the module does not define raises NameError.
Resolves(name) == name \in ConvertModuleNames

Finish(args, n) ==
    /\ pc' = "idle"
    /\ history' = Append(history, [input |-> args.input, output |-> args.output,
                                   pattern |-> args.pattern, total |-> n])

StartLoop(args, md_files) ==
    /\ pc' = "loop"
    /\ md_left' = md_files
    /\ total' = Cardinality(md_files)
    /\ results' = <<>>
    /\ success_count' = 0
    /\ mapped' = {}
    /\ UNCHANGED history

NoLoop(args, n, r) ==
    /\ Finish(args, n)
    /\ ret' = r
    /\ md_left' = {}
    /\ total' = n
    /\ results' = <<>>
    /\ success_count' = 0
    /\ mapped' = {}

\* markdown_converter.py 268-288: MarkdownConverter.batch_convert up to its loop
BatchConvert ==
    /\ pc = "idle"
    /\ Len(history) < MaxBatchCalls
    /\ LET args == [batch EXCEPT !.driver = "lib"]
           ds1 == MakeDirs(dirs, args.output)
           md_files == Glob(files, ds1, args.input, args.pattern)
       IN /\ batch' = args
          /\ IF ~Exists(files, dirs, args.input)
             THEN NoLoop(args, 0, "{}") /\ UNCHANGED dirs
             ELSE /\ dirs' = ds1
                  /\ IF md_files = {}
                     THEN NoLoop(args, 0, "{}")
                     ELSE StartLoop(args, md_files) /\ ret' = "running"
    /\ calls' = calls + 1
    /\ UNCHANGED <<files, invVars, locVars, opts>>

\* convert.py 88-113: convert.batch_convert up to its loop.  An output_dir of
\* None is replaced by input_path / "converted" (convert.py 97-98), which is the
\* Converted choice of the session's arguments.
CliBatchConvert ==
    /\ pc = "idle"
    /\ Len(history) < MaxBatchCalls
    /\ LET args == [batch EXCEPT !.driver = "cli"]
           ds1 == MakeDirs(dirs, args.output)
           md_files == Glob(files, ds1, args.input, args.pattern)
       IN /\ batch' = args
          /\ IF ~Exists(files, dirs, args.input)
             THEN NoLoop(args, 0, "False") /\ UNCHANGED dirs
             ELSE /\ dirs' = ds1
                  /\ IF md_files = {}
                     THEN NoLoop(args, 0, "False")
                     ELSE IF Resolves("setup_converter")
                          THEN StartLoop(args, md_files) /\ ret' = "running"
                          ELSE NoLoop(args, Cardinality(md_files), "NameError")
    /\ calls' = calls + 1
    /\ UNCHANGED <<files, invVars, locVars, opts>>

\* markdown_converter.py 290-305 and convert.py 116-122: one iteration of the
\* loop over md_files (enumeration order is the filesystem's)
BatchStep ==
    /\ pc = "loop"
    /\ md_left # {}
    /\ \E md_file \in md_left, outcome \in EngineOutcomes :
         LET lib == batch.driver = "lib"
             output_file == OutputFileOf(batch.output, md_file)
             toc == lib /\ opts.toc
             num == lib /\ opts.number_sections
             template == IF lib THEN opts.template ELSE NoPath
             r == ConvertFile(files, dirs, md_file, output_file, template, toc, num,
                              <<>>, outcome)
             name == Basename(md_file)
         IN /\ Apply(r, FALSE)
            /\ results' = IF lib THEN (name :> r.ret) @@ results ELSE results
            /\ success_count' = success_count + (IF r.ret THEN 1 ELSE 0)
            /\ mapped' = mapped \cup {[input |-> md_file, output |-> output_file]}
            /\ md_left' = md_left \ {md_file}
    /\ UNCHANGED <<pc, batch, total, history, calls, extra0, last, locVars, opts>>

\* markdown_converter.py 307-308 and convert.py 124-127: summary and return
BatchReturn ==
    /\ pc = "loop"
    /\ md_left = {}
    /\ Finish(batch, total)
    /\ ret' = IF batch.driver = "lib" THEN "results" ELSE BoolStr(success_count > 0)
    /\ UNCHANGED <<fsVars, invVars, locVars, opts, calls, batch, md_left, total,
                   results, success_count, mapped>>

DirsOf(paths) == UNION {{SubSeq(p, 1, i) : i \in 1..(Len(p) - 1)} : p \in paths}

InitBatch ==
    /\ \E present \in SUBSET InputUniverse :
         /\ Cardinality(present) <= MaxInputFiles
         /\ files = [p \in present |-> Src]
         /\ dirs = {InDir} \cup DirsOf(present)
    /\ opts = [template |-> NoPath, toc |-> TRUE, number_sections |-> FALSE]
    /\ installed = [c \in Candidates |-> "absent"]
    /\ probe = "ok"
    /\ InitLocatorIdle
    /\ InitInvokerIdle
    /\ batch \in [driver : {"none"}, input : {InDir, NoDir},
                  output : {OutDir, InDir, Converted}, pattern : Patterns]
    /\ pc = "idle"
    /\ md_left = {}
    /\ total = 0
    /\ results = <<>>
    /\ success_count = 0
    /\ mapped = {}
    /\ history = <<>>
    /\ ret = "none"
    /\ calls = 0

NextBatch == BatchConvert \/ CliBatchConvert \/ BatchStep \/ BatchReturn

SpecBatch == InitBatch /\ [][NextBatch]_vars

----------------------------------------------------------------------------
(* Claims about the Conversion Invoker, checked under SpecInvoker *)

Invoked == engineCalls = last.engine_before + 1

InArgs(a, args) == \E i \in 1..Len(args) : args[i] = a

\* The reference-template, table-of-contents and section-numbering flags the
\* options of the last call enable.
EnabledFlags ==
    (IF last.template # NoPath /\ last.template_existed
        THEN <<Flag("--reference-doc"), PathArg(last.template)>> ELSE <<>>)
    \o (IF last.toc THEN <<Flag("--toc")>> ELSE <<>>)
    \o (IF last.number_sections THEN <<Flag("--number-sections")>> ELSE <<>>)

\* C2: convert_file on an input path that does not exist returns False, does not
\* invoke the engine, creates no file or directory, and leaves every existing
\* file (the one at the output path included) as it was.
C2_MissingInputIsNonDestructive ==
    (last.op = "convert_file" /\ ~last.input_existed) =>
        /\ ret = "False"
        /\ engineCalls = last.engine_before
        /\ files = last.files_before
        /\ dirs = last.dirs_before

\* C2 witness: a call on a missing input while a file was already at the output
\* path, which is still there with its old content.
C2_Witness ==
    /\ last.op = "convert_file"
    /\ ~last.input_existed
    /\ last.output_existed
    /\ last.output \in DOMAIN files
    /\ files[last.output] = Old

\* C3 as stated: for an existing input, the result is True exactly when the
\* output file exists after the engine invocation, whether or not the engine
\* raised.
C3_TrueIffOutputExists ==
    ((last.op = "convert_file" /\ last.input_existed) \/ last.op = "convert_text") =>
        (ret = "True" <=> Exists(files, dirs, last.output))

\* C3 amended: for an existing input, convert_file (and convert_text) returns
\* True exactly when the engine invocation returned without raising and the
\* output file exists afterwards.
C3_TrueIffNoRaiseAndOutputExists ==
    ((last.op = "convert_file" /\ last.input_existed) \/ last.op = "convert_text") =>
        (ret = "True" <=> (~last.raised /\ Exists(files, dirs, last.output)))

\* C3 witness: the engine raised, a file exists at the output path, and the call
\* returned False.
C3_Witness ==
    /\ last.op = "convert_file"
    /\ last.input_existed
    /\ last.raised
    /\ Exists(files, dirs, last.output)
    /\ ret = "False"

\* C5 as stated: the engine's argument list is the enabled flags followed by the
\* caller's extra arguments.
C5_ExtraArgsAfterFlags ==
    (last.op = "convert_file" /\ Invoked) =>
        lastEngine.args = EnabledFlags \o last.extra_passed

\* C5 amended: the engine's argument list is the caller's extra arguments,
\* verbatim, followed by the enabled flags: the extra arguments come first.
C5_ExtraArgsBeforeFlags ==
    (last.op = "convert_file" /\ Invoked) =>
        lastEngine.args = last.extra_passed \o EnabledFlags

\* C5 witness: an engine invocation with both extra arguments and enabled flags.
C5_Witness ==
    /\ last.op = "convert_file"
    /\ Invoked
    /\ last.extra_passed # <<>>
    /\ Len(EnabledFlags) >= 3

\* C7: the command-line single-file path on an existing input invokes the
\* Conversion Invoker exactly once with the requested options and returns its
\* boolean result; with --toc the engine's arguments contain the toc flag.
C7_SingleFileInvokesOnce ==
    (last.op = "convert_single_file" /\ last.input_existed) =>
        /\ ret \in {"True", "False"}
        /\ Invoked
        /\ lastEngine.input = last.input
        /\ last.toc => InArgs(Flag("--toc"), lastEngine.args)
        /\ last.number_sections => InArgs(Flag("--number-sections"), lastEngine.args)

\* C10: convert_file never modifies the caller's extra-argument list, so every
\* call with the same options sends the engine the same argument list.
C10_CallerListUnchanged ==
    /\ callerExtra = extra0
    /\ (last.op = "convert_file" /\ Invoked) =>
          lastEngine.args = extra0 \o EnabledFlags

----------------------------------------------------------------------------
(* Claims about the Engine Locator, checked under SpecLocator *)

IdxOf(path) == CHOOSE i \in 1..Len(PossiblePaths) : PossiblePaths[i] = path

NoneOnDisk == \A c \in Candidates : installed[c] = "absent"
NoneWorks == \A c \in Candidates : installed[c] # "works"

\* C6 as stated: _find_pandoc returns the first candidate whose version query
\* succeeds (one that exists but fails its probe is passed over), the sentinel
\* if only the search path verifies, or none; it cannot fail.
C6_FirstVerifiedCandidate ==
    ret = "find_pandoc" =>
        /\ located # Raised
        /\ located \in Candidates =>
              /\ installed[located] = "works"
              /\ \A j \in 1..(IdxOf(located) - 1) : installed[PossiblePaths[j]] # "works"
        /\ located = Sentinel => NoneWorks /\ probe = "ok"
        /\ located = None => NoneWorks /\ probe # "ok"

\* C6 amended: _find_pandoc returns the first candidate in list order that
\* exists on disk, without running it; only the search-path sentinel is
\* verified by a version query, and is returned when no candidate exists and the
\* query succeeds; the result is none when that query fails or pandoc is not
\* found, and any other error of the query propagates.  get_converter selects
\* the same first existing candidate.
C6_FirstExistingCandidate ==
    /\ ret = "find_pandoc" =>
        /\ located \in Candidates =>
              /\ installed[located] # "absent"
              /\ \A j \in 1..(IdxOf(located) - 1) : installed[PossiblePaths[j]] = "absent"
        /\ located = Sentinel => NoneOnDisk /\ probe = "ok"
        /\ located = None => NoneOnDisk /\ probe \in {"nonzero", "notfound"}
        /\ located = Raised => NoneOnDisk /\ probe = "oserror"
    /\ ret = "get_converter" =>
        /\ pandoc_path \in Candidates =>
              /\ installed[pandoc_path] # "absent"
              /\ \A j \in 1..(IdxOf(pandoc_path) - 1) : installed[PossiblePaths[j]] = "absent"
        /\ pandoc_path = Sentinel => NoneOnDisk /\ probe = "ok"
        /\ pandoc_path = None => NoneOnDisk /\ probe # "ok"

\* C6 witness: _find_pandoc returned a candidate that exists on disk but does not
\* run, although a later candidate works.
C6_Witness ==
    /\ ret = "find_pandoc"
    /\ located \in Candidates
    /\ installed[located] = "broken"
    /\ \E c \in Candidates : installed[c] = "works" /\ IdxOf(c) > IdxOf(located)

----------------------------------------------------------------------------
(* Claims about the Batch Drivers, checked under SpecBatch *)

Exceptions == {"NameError", "TypeError"}

BatchFinished == pc = "idle" /\ batch.driver # "none"

\* C1: a batch never aborts: no exception leaves the batch driver, and every
\* matched file has been attempted when the driver returns.
C1_BatchContainsFailures ==
    BatchFinished =>
        /\ ret \notin Exceptions
        /\ Cardinality({m.input : m \in mapped}) = total

\* C4: the result map of MarkdownConverter.batch_convert has one entry per
\* matched file, and the success count equals the number of True entries.
C4_OneEntryPerMatchedFile ==
    ret = "results" =>
        /\ Cardinality(DOMAIN results) = total
        /\ success_count = Cardinality({n \in DOMAIN results : results[n]})

\* Whether a file <stem>.docx placed in the output directory can match the
\* pattern below the input directory.
CanMatchOutputs(h) ==
    /\ IsPrefix(h.input, h.output)
    /\ Len(h.output) + 1 = Len(h.input) + Len(h.pattern)
    /\ \A i \in 1..(Len(h.pattern) - 1) :
          MatchName(h.pattern[i], h.output[Len(h.input) + i])
    /\ LET l == h.pattern[Len(h.pattern)]
       IN IF l.dot THEN l.ext \in {"*", "docx"} ELSE l.stem = "*"

SameArguments(g, h) ==
    g.input = h.input /\ g.output = h.output /\ g.pattern = h.pattern

\* C8 as stated: two sequential batch calls with the same arguments report the
\* same number of matched files, for any pattern and any output directory.
C8_SameTotalTwice ==
    \A i \in 1..(Len(history) - 1) :
        SameArguments(history[i], history[i + 1]) =>
            history[i].total = history[i + 1].total

\* C8 amended: two sequential batch calls with the same arguments report the
\* same number of matched files provided the pattern cannot match a .docx file
\* placed in the output directory (so for any pattern when the output directory
\* is outside the input directory, and for *.md with any output directory).
C8_SameTotalUnlessOutputsMatch ==
    \A i \in 1..(Len(history) - 1) :
        (SameArguments(history[i], history[i + 1]) /\ ~CanMatchOutputs(history[i])) =>
            history[i].total = history[i + 1].total

\* C8 witness: two finished batch calls over a non-empty match, the first of
\* which wrote a document into an output directory inside the input directory.
C8_Witness ==
    /\ Len(history) >= 2
    /\ history[1].total > 0
    /\ history[1].output = Converted
    /\ ~CanMatchOutputs(history[1])
    /\ \E p \in DOMAIN files : IsPrefix(Converted, p) /\ files[p] = Docx

\* C9: within one batch call no two distinct matched input files are mapped to
\* the same output path.
C9_DistinctOutputs ==
    \A m1 \in mapped : \A m2 \in mapped :
        m1.input # m2.input => m1.output # m2.output

====
